---------------------------- MODULE Spec2Model ----------------------------
(***************************************************************************)
(* The engine adapters of websurfx (src/engines/{bing,brave,duckduckgo,    *)
(* librex,startpage}.rs): one `results` call per adapter, from request     *)
(* building through the transport and the result parser to the returned    *)
(* list, and Bing's `decode_url`.                                          *)
(*                                                                         *)
(* Rust strings that the code only formats and compares (URLs, header      *)
(* values) are TLA+ strings built with \o.  Rust strings that the code     *)
(* scans (href values, inner HTML, class attributes) are sequences of      *)
(* UTF-8 bytes, as a Rust String is.                                       *)
(***************************************************************************)
EXTENDS Integers, Sequences, FiniteSets, TLC

(***************************************************************************)
(* u32 values.  A page number is a pair of 16-bit limbs; the exact result  *)
(* of an arithmetic step keeps every bit in `hi`, so that the 32-bit       *)
(* result and the overflow of the step are both known.                     *)
(***************************************************************************)
Limb == 2^16

Num(h, l) == [hi |-> h, lo |-> l]

\* the u32 of a small natural number
Small(n) == Num(0, n)

\* u32::MAX = 4294967295
U32Max == Num(Limb - 1, Limb - 1)

\* exact a * k + c for small k, c (k, c < 2^14)
MulAddExact(a, k, c) ==
    LET t == a.lo * k + c
    IN  Num(a.hi * k + (t \div Limb), t % Limb)

\* exact a - 1, for a > 0
PredExact(a) ==
    IF a.lo > 0 THEN Num(a.hi, a.lo - 1) ELSE Num(a.hi - 1, Limb - 1)

FitsU32(n) == n.hi < Limb

Wrap32(n) == Num(n.hi % Limb, n.lo)

\* One u32 arithmetic step of the build: with overflow checks (debug
\* profile) an overflowing step panics, without them (release profile) it
\* wraps.  The result is <<>> for a panic and <<value>> otherwise.
U32Step(exact, overflow_checks) ==
    IF FitsU32(exact) THEN <<exact>>
    ELSE IF overflow_checks THEN <<>>
    ELSE <<Wrap32(exact)>>

U32Mul(a, k, overflow_checks) == U32Step(MulAddExact(a, k, 0), overflow_checks)

U32Add(a, c, overflow_checks) == U32Step(MulAddExact(a, 1, c), overflow_checks)

\* Display ({}) of an unsigned integer: its decimal digits, most significant first
RECURSIVE Display(_)
Display(n) ==
    LET t == (n.hi % 10) * Limb + n.lo
        q == Num(n.hi \div 10, t \div 10)
    IN  IF n.hi = 0 /\ n.lo < 10 THEN ToString(n.lo)
        ELSE Display(q) \o ToString(t % 10)


(***************************************************************************)
(* Request building: the URL and the header set of each adapter.           *)
(***************************************************************************)
Engines == {"bing", "brave", "duckduckgo", "librex", "startpage"}

BASE_URL(engine) ==
    CASE engine = "bing" -> "https://www.bing.com"
      [] engine = "brave" -> "https://search.brave.com"
      [] engine = "duckduckgo" -> "https://html.duckduckgo.com"
      [] engine = "librex" -> "https://search.ahwx.org"
      [] engine = "startpage" -> "https://www.startpage.com"

\* A URL under construction: <<>> when the arithmetic panicked, <<url>>
\* otherwise.
Panicked == <<>>

results_per_page == 10

\* bing.rs: start_result is computed before the match on page
BingUrl(query, page, overflow_checks) ==
    LET prod == U32Mul(page, results_per_page, overflow_checks)
        start_result == IF prod = <<>> THEN <<>>
                        ELSE U32Add(prod[1], 1, overflow_checks)
        base == BASE_URL("bing") \o "/search?q=" \o query \o "&pq=" \o query
    IN  IF start_result = <<>> THEN Panicked
        ELSE IF page = Small(0) THEN <<base>>
        ELSE IF page = Small(1)
             THEN <<base \o "&first=" \o Display(start_result[1]) \o "&FORM=PERE">>
        ELSE <<base \o "&first=" \o Display(start_result[1]) \o "&FORM=PERE"
                    \o Display(PredExact(page))>>

BraveUrl(query, page, overflow_checks) ==
    <<BASE_URL("brave") \o "/search?q=" \o query \o "&offset=" \o Display(page)>>

\* duckduckgo.rs: the format arguments page * 30 and page * 30 + 1 are
\* evaluated in this order
DuckDuckGoUrl(query, page, overflow_checks) ==
    LET s == U32Mul(page, 30, overflow_checks)
        dc == IF s = <<>> THEN <<>> ELSE U32Add(s[1], 1, overflow_checks)
        base == BASE_URL("duckduckgo") \o "/html/?q=" \o query
    IN  IF page = Small(0) THEN <<base \o "&s=&dc=&v=1&o=json&api=/d.js">>
        ELSE IF s = <<>> \/ dc = <<>> THEN Panicked
        ELSE <<base \o "&s=" \o Display(s[1]) \o "&dc=" \o Display(dc[1])
                    \o "&v=1&o=json&api=/d.js">>

LibreXUrl(query, page, overflow_checks) ==
    LET p == U32Mul(page, 10, overflow_checks)
    IN  IF p = <<>> THEN Panicked
        ELSE <<BASE_URL("librex") \o "/search.php?q=" \o query \o "&p="
                    \o Display(p[1]) \o "&t=10">>

StartpageUrl(query, page, overflow_checks) ==
    LET next == U32Add(page, 1, overflow_checks)
    IN  IF page = Small(0)
        THEN <<BASE_URL("startpage") \o "/sp/search?query=" \o query
                    \o "&abp=1&t=device&lui=english&cat=web">>
        ELSE IF next = <<>> THEN Panicked
        ELSE <<BASE_URL("startpage")
                    \o "/sp/search?lui=english&language=english&query=" \o query
                    \o "&cat=web&t=device&segment=startpage.udog&page="
                    \o Display(next[1])>>

BuildUrl(engine, query, page, overflow_checks) ==
    CASE engine = "bing" -> BingUrl(query, page, overflow_checks)
      [] engine = "brave" -> BraveUrl(query, page, overflow_checks)
      [] engine = "duckduckgo" -> DuckDuckGoUrl(query, page, overflow_checks)
      [] engine = "librex" -> LibreXUrl(query, page, overflow_checks)
      [] engine = "startpage" -> StartpageUrl(query, page, overflow_checks)

\* pairs.iter().map(format).collect().join(sep)
RECURSIVE JoinPairs(_, _, _)
JoinPairs(pairs, eq, sep) ==
    IF pairs = <<>> THEN ""
    ELSE IF Len(pairs) = 1 THEN pairs[1][1] \o eq \o pairs[1][2]
    ELSE pairs[1][1] \o eq \o pairs[1][2] \o sep \o JoinPairs(Tail(pairs), eq, sep)

\* bing.rs: the fixed cookie entries
query_params ==
    << <<"_C_ETH", "1">>, <<"_EDGE_V", "1">>, <<"_Rwho", "u=d">>,
       <<"bngps=s", "0">>, <<"_UR", "QS=4">>, <<"ANIMIA", "FRE=1">>,
       <<"BCP", "AD=0&AL=0&SM=0">>, <<"bngps", "s=0">>,
       <<"SRCHD", "AF=NOFORM">> >>

\* bing.rs: every entry is pushed as "{k}={v}; "
RECURSIVE cookie_string(_)
cookie_string(pairs) ==
    IF pairs = <<>> THEN ""
    ELSE pairs[1][1] \o "=" \o pairs[1][2] \o "; " \o cookie_string(Tail(pairs))

\* Mutant of BraveSafeSearchLevel: level 2 is still moderate.
BraveSafeSearchLevel_LateStrict(safe_search) ==
    IF safe_search = 0 THEN "off"
    ELSE IF safe_search <= 2 THEN "moderate"
    ELSE "strict"

BraveSafeSearchLevel(safe_search) ==
    IF safe_search = 0 THEN "off"
    ELSE IF safe_search = 1 THEN "moderate"
    ELSE "strict"

LibreXSafeSearchLevel(safe_search) ==
    IF safe_search = 0 THEN "off" ELSE "on"

StartpageSafeSearchLevel(safe_search) ==
    IF safe_search = 0 THEN "1" ELSE "0"

LibreXSettings(safe_search) ==
    << <<"theme", "amoled">>, <<"disable_special", "on">>,
       <<"disable_frontends", "on">>, <<"language", "en">>,
       <<"number_of_results", "20">>,
       <<"safe_search", LibreXSafeSearchLevel(safe_search)>>,
       <<"save", "1">> >>

StartpageSettings(safe_search) ==
    << <<"date_time", "world">>,
       <<"disable_family_filter", StartpageSafeSearchLevel(safe_search)>>,
       <<"disable_open_in_new_window", "1">>, <<"enable_post_method", "0">>,
       <<"enable_proxy_safety_suggest", "0">>, <<"enable_stay_control", "0">>,
       <<"instant_answers", "0">>, <<"lang_homepage", "s%2Fdevice%2Fen">>,
       <<"language", "english">>, <<"language_ui", "english">>,
       <<"num_of_results", "20">>, <<"search_results_region", "all">>,
       <<"suggestions", "0">>, <<"wt_unit", "celsius">> >>

\* The four headers every adapter sends.
CommonHeaders(engine, user_agent, accept_language) ==
    [h \in {"User-Agent", "Accept-Language", "Referer", "Origin"} |->
        CASE h = "User-Agent" -> user_agent
          [] h = "Accept-Language" -> accept_language
          [] h = "Referer" -> BASE_URL(engine) \o "/"
          [] h = "Origin" -> BASE_URL(engine)]

FormAndGpc ==
    [h \in {"Content-Type", "Sec-GPC"} |->
        IF h = "Content-Type" THEN "application/x-www-form-urlencoded" ELSE "1"]

Cookie(value) == [h \in {"Cookie"} |-> value]

\* Mutant of BingHeaders: the safe-search level is sent in the cookie.
BingHeaders_AdultFilter(user_agent, accept_language, safe_search) ==
    CommonHeaders("bing", user_agent, accept_language)
        @@ Cookie(cookie_string(query_params) \o "SRCHHPGUSR=ADLT="
                  \o (IF safe_search = 0 THEN "OFF" ELSE "STRICT"))

BingHeaders(user_agent, accept_language, safe_search) ==
    CommonHeaders("bing", user_agent, accept_language)
        @@ Cookie(cookie_string(query_params))

BraveHeaders(user_agent, accept_language, safe_search) ==
    CommonHeaders("brave", user_agent, accept_language) @@ FormAndGpc
        @@ Cookie("safe_search=" \o BraveSafeSearchLevel(safe_search))

DuckDuckGoHeaders(user_agent, accept_language, safe_search) ==
    CommonHeaders("duckduckgo", user_agent, accept_language) @@ FormAndGpc

LibreXHeaders(user_agent, accept_language, safe_search) ==
    CommonHeaders("librex", user_agent, accept_language) @@ FormAndGpc
        @@ Cookie("preferences=" \o JoinPairs(LibreXSettings(safe_search), "=", ", "))

StartpageHeaders(user_agent, accept_language, safe_search) ==
    CommonHeaders("startpage", user_agent, accept_language)
        @@ [h \in {"Sec-GPC"} |-> "1"]
        @@ Cookie("preferences="
                  \o JoinPairs(StartpageSettings(safe_search), "EEE", "N1N"))

BuildHeaders(engine, user_agent, accept_language, safe_search) ==
    CASE engine = "bing" -> BingHeaders(user_agent, accept_language, safe_search)
      [] engine = "brave" -> BraveHeaders(user_agent, accept_language, safe_search)
      [] engine = "duckduckgo" ->
            DuckDuckGoHeaders(user_agent, accept_language, safe_search)
      [] engine = "librex" -> LibreXHeaders(user_agent, accept_language, safe_search)
      [] engine = "startpage" ->
            StartpageHeaders(user_agent, accept_language, safe_search)

\* Header values the http crate rejects: a value holding a control
\* character (here a line feed) is no valid header value.
InvalidHeaderValues == {"Mozilla\n5.0", "en\nUS"}

\* Mutant of HeaderMapTryFrom: the failure is ignored.
HeaderMapTryFrom_Unchecked(headers) == TRUE

\* HeaderMap::try_from(&HashMap): fails when some value is no valid header
\* value; every header name used is valid.
HeaderMapTryFrom(headers) ==
    \A h \in DOMAIN headers : headers[h] \notin InvalidHeaderValues

(***************************************************************************)
(* Byte strings.  AsciiChars lists the characters of the codes 32..126, so *)
(* that Str(<<"a", "b">>) is the byte string of "ab"; the lexer takes no    *)
(* grave accent in a string, so code 96 has a placeholder.                 *)
(***************************************************************************)
AsciiChars ==
    <<
       " ", "!", "\"", "#", "$", "%", "&", "'", "(", ")", "*", "+", ",",
           "-", ".", "/", "0", "1", "2", "3", "4", "5", "6", "7", "8", "9",
           ":", ";", "<", "=", ">", "?", "@", "A", "B", "C", "D", "E", "F",
           "G", "H", "I", "J", "K", "L", "M", "N", "O", "P", "Q", "R", "S",
           "T", "U", "V", "W", "X", "Y", "Z", "[", "\\", "]", "^", "_",
           "(grave)", "a", "b", "c", "d", "e", "f", "g", "h", "i", "j", "k", "l",
           "m", "n", "o", "p", "q", "r", "s", "t", "u", "v", "w", "x", "y",
           "z", "{", "|", "}", "~"
    >>

Ord == [c \in {AsciiChars[i] : i \in 1..Len(AsciiChars)} |->
           31 + (CHOOSE i \in 1..Len(AsciiChars) : AsciiChars[i] = c)]

Str(cs) == [i \in 1..Len(cs) |-> Ord[cs[i]]]

StartsWithAt(s, i, p) ==
    /\ i + Len(p) - 1 <= Len(s)
    /\ SubSeq(s, i, i + Len(p) - 1) = p

\* str::starts_with
StartsWith(s, p) == StartsWithAt(s, 1, p)

\* str::contains
Contains(s, p) == \E i \in 1..(Len(s) + 1) : StartsWithAt(s, i, p)

IsWhitespace(b) == b = 32 \/ (b >= 9 /\ b <= 13)

\* str::trim
RECURSIVE TrimStart(_)
TrimStart(s) ==
    IF s # <<>> /\ IsWhitespace(s[1]) THEN TrimStart(Tail(s)) ELSE s

RECURSIVE TrimEnd(_)
TrimEnd(s) ==
    IF s # <<>> /\ IsWhitespace(s[Len(s)]) THEN TrimEnd(SubSeq(s, 1, Len(s) - 1))
    ELSE s

Trim(s) == TrimEnd(TrimStart(s))

(***************************************************************************)
(* bing.rs decode_url and what it calls.  A fallible step yields <<>> for  *)
(* Err/None and <<value>> for Ok/Some.                                     *)
(***************************************************************************)
Amp == Ord["&"]

\* the literal part of the regex &u=a1([^&]+)
MARKER == Str(<<"&", "u", "=", "a", "1">>)

RECURSIVE RunEnd(_, _)
\* the last index of the run of bytes other than & that starts at i
RunEnd(s, i) ==
    IF i < Len(s) /\ s[i + 1] # Amp THEN RunEnd(s, i + 1) ELSE i

RECURSIVE CapturesFrom(_, _)
\* the leftmost match of &u=a1([^&]+) at or after index i: its group 1
CapturesFrom(url, i) ==
    IF i + Len(MARKER) > Len(url) THEN <<>>
    ELSE IF StartsWithAt(url, i, MARKER) /\ url[i + Len(MARKER)] # Amp
         THEN <<SubSeq(url, i + Len(MARKER), RunEnd(url, i + Len(MARKER)))>>
    ELSE CapturesFrom(url, i + 1)

\* re.captures(url)
Captures(url) == CapturesFrom(url, 1)

\* Mutant of B64Value: the URL-safe alphabet (- and _ for + and /).
B64Value_UrlSafe(b) ==
    IF b >= 65 /\ b <= 90 THEN b - 65
    ELSE IF b >= 97 /\ b <= 122 THEN b - 71
    ELSE IF b >= 48 /\ b <= 57 THEN b + 4
    ELSE IF b = 45 THEN 62
    ELSE IF b = 95 THEN 63
    ELSE -1

\* the value of a symbol of the standard base64 alphabet, -1 for any other
\* byte (the padding symbol = included: the engine takes no padding)
B64Value(b) ==
    IF b >= 65 /\ b <= 90 THEN b - 65
    ELSE IF b >= 97 /\ b <= 122 THEN b - 71
    ELSE IF b >= 48 /\ b <= 57 THEN b + 4
    ELSE IF b = 43 THEN 62
    ELSE IF b = 47 THEN 63
    ELSE -1

RECURSIVE DecodeSymbols(_)
\* the bytes of a sequence of 6-bit values
DecodeSymbols(v) ==
    IF Len(v) >= 4
    THEN LET n == v[1] * 262144 + v[2] * 4096 + v[3] * 64 + v[4]
         IN  <<n \div 65536, (n \div 256) % 256, n % 256>>
                 \o DecodeSymbols(SubSeq(v, 5, Len(v)))
    ELSE IF Len(v) = 3
    THEN LET n == v[1] * 4096 + v[2] * 64 + v[3]
         IN  <<n \div 1024, (n \div 4) % 256>>
    ELSE IF Len(v) = 2
    THEN <<(v[1] * 64 + v[2]) \div 16>>
    ELSE <<>>

\* the bits of the last symbols that belong to no byte
TrailingBits(v) ==
    IF Len(v) % 4 = 3 THEN v[Len(v)] % 4
    ELSE IF Len(v) % 4 = 2 THEN v[Len(v)] % 16
    ELSE 0

\* base64::engine::general_purpose::STANDARD_NO_PAD.decode
Base64Decode(s) ==
    LET v == [i \in 1..Len(s) |-> B64Value(s[i])]
    IN  IF \E i \in 1..Len(s) : v[i] = -1 THEN <<>>
        ELSE IF Len(s) % 4 = 1 THEN <<>>
        ELSE IF TrailingBits(v) # 0 THEN <<>>
        ELSE <<DecodeSymbols(v)>>

IsCont(s, i) == i <= Len(s) /\ s[i] >= 128 /\ s[i] <= 191

RECURSIVE Utf8ValidFrom(_, _)
Utf8ValidFrom(s, i) ==
    IF i > Len(s) THEN TRUE
    ELSE LET b == s[i]
         IN  IF b <= 127 THEN Utf8ValidFrom(s, i + 1)
             ELSE IF b >= 194 /\ b <= 223
                  THEN IsCont(s, i + 1) /\ Utf8ValidFrom(s, i + 2)
             ELSE IF b >= 224 /\ b <= 239
                  THEN /\ IsCont(s, i + 1) /\ IsCont(s, i + 2)
                       /\ (b = 224 => s[i + 1] >= 160)
                       /\ (b = 237 => s[i + 1] <= 159)
                       /\ Utf8ValidFrom(s, i + 3)
             ELSE IF b >= 240 /\ b <= 244
                  THEN /\ IsCont(s, i + 1) /\ IsCont(s, i + 2) /\ IsCont(s, i + 3)
                       /\ (b = 240 => s[i + 1] >= 144)
                       /\ (b = 244 => s[i + 1] <= 143)
                       /\ Utf8ValidFrom(s, i + 4)
             ELSE FALSE

\* String::from_utf8
FromUtf8(bytes) == IF Utf8ValidFrom(bytes, 1) THEN <<bytes>> ELSE <<>>

\* Mutant of decode_url: bytes that are no UTF-8 are returned as they are.
decode_url_Lossy(url) ==
    LET substr == Captures(url)
    IN  IF substr = <<>> THEN url
        ELSE LET bytes == Base64Decode(substr[1])
             IN  IF bytes = <<>> THEN url ELSE bytes[1]

\* bing.rs decode_url: Regex::new on the constant pattern cannot fail
decode_url(url) ==
    LET substr == Captures(url)
    IN  IF substr = <<>> THEN url
        ELSE LET bytes == Base64Decode(substr[1])
             IN  IF bytes = <<>> THEN url
                 ELSE LET str == FromUtf8(bytes[1])
                      IN  IF str = <<>> THEN url ELSE str[1]

\* bing.rs: the click-tracking prefix of an obfuscated link
CLICK_PREFIX ==
    Str(<<"h", "t", "t", "p", "s", ":", "/", "/", "w", "w", "w", ".", "b",
        "i", "n", "g", ".", "c", "o", "m", "/", "c", "k", "/", "a", "?">>)

\* bing.rs: the url of a result, from the href of its link element
BingUrlDecoded(href) ==
    IF StartsWith(href, CLICK_PREFIX) THEN decode_url(href) ELSE href

(***************************************************************************)
(* Documents.  A fetched page is the sequence, in document order, of the   *)
(* elements that the adapter's no-results selector or its result-item      *)
(* selector matches.  A no-results element has a class attribute (maybe)   *)
(* and inner HTML; a result-item container has, for each of the title,     *)
(* link and description sub-selectors, the first element it matches        *)
(* (maybe), with that element's href attribute (maybe) and inner HTML.     *)
(***************************************************************************)
None == <<>>

Some(v) == <<v>>

NoResultsElement(class, inner_html) ==
    [kind |-> "no_results", class |-> class, inner_html |-> inner_html,
     title |-> None, link |-> None, desc |-> None]

Container(title, link, desc) ==
    [kind |-> "item", class |-> None, inner_html |-> <<>>,
     title |-> title, link |-> link, desc |-> desc]

\* an element that neither document-level selector matches
OtherElement ==
    [kind |-> "other", class |-> None, inner_html |-> <<>>,
     title |-> None, link |-> None, desc |-> None]

Element(href, inner_html) == [href |-> href, inner_html |-> inner_html]

\* scraper: Html::parse_document; a page is given by its elements, which
\* the document holds in the same order
ParseDocument(html) == html

IsKind(kind, e) == e.kind = kind

\* scraper: document.select(selector) for the two document-level
\* selectors, in document order
Select(document, kind) ==
    LET RECURSIVE Pick(_)
        Pick(s) == IF s = <<>> THEN <<>>
                   ELSE IF IsKind(kind, Head(s)) THEN <<Head(s)>> \o Pick(Tail(s))
                   ELSE Pick(Tail(s))
    IN  Pick(document)

\* SearchResultParser::parse_for_no_results: the elements the no-results
\* selector matches
parse_for_no_results(document) == Select(document, "no_results")

\* SearchResult::new
SearchResult(title, url, description, engine) ==
    [title |-> title, url |-> url, description |-> description,
     engine |-> {engine}]

RECURSIVE Flatten(_)
Flatten(options) ==
    IF options = <<>> THEN <<>> ELSE Head(options) \o Flatten(Tail(options))

\* ElementRef::text().collect().join(""): the inner HTML without its tags
RECURSIVE TextOf(_, _)
TextOf(html, in_tag) ==
    IF html = <<>> THEN <<>>
    ELSE IF in_tag
         THEN TextOf(Tail(html), Head(html) # Ord[">"])
    ELSE IF Head(html) = Ord["<"] THEN TextOf(Tail(html), TRUE)
    ELSE <<Head(html)>> \o TextOf(Tail(html), FALSE)

\* bing.rs re_span: <span.*?>.*?(?:</span>&nbsp;XY|</span>), where XY are
\* the two characters U+00C2 U+00B7
SPAN_OPEN == Str(<<"<", "s", "p", "a", "n">>)

SPAN_CLOSE == Str(<<"<", "/", "s", "p", "a", "n", ">">>)

\* &nbsp; and the two characters U+00C2 U+00B7 of the pattern
SPAN_CLOSE_SEP == SPAN_CLOSE \o Str(<<"&", "n", "b", "s", "p", ";">>) \o <<195, 130, 194, 183>>

RECURSIVE FindGt(_, _)
\* the index of the first > at or after i with no line feed before it, 0
\* when there is none (. matches no line feed)
FindGt(s, i) ==
    IF i > Len(s) \/ s[i] = 10 THEN 0
    ELSE IF s[i] = Ord[">"] THEN i
    ELSE FindGt(s, i + 1)

RECURSIVE FindClose(_, _)
\* the index of the first </span> at or after i with no line feed before it
FindClose(s, i) ==
    IF i > Len(s) THEN 0
    ELSE IF StartsWithAt(s, i, SPAN_CLOSE) THEN i
    ELSE IF s[i] = 10 THEN 0
    ELSE FindClose(s, i + 1)

\* the index after the match of re_span that starts at i, 0 when none
SpanMatchEnd(s, i) ==
    IF ~StartsWithAt(s, i, SPAN_OPEN) THEN 0
    ELSE LET gt == FindGt(s, i + Len(SPAN_OPEN))
             close == IF gt = 0 THEN 0 ELSE FindClose(s, gt + 1)
         IN  IF close = 0 THEN 0
             ELSE IF StartsWithAt(s, close, SPAN_CLOSE_SEP)
                  THEN close + Len(SPAN_CLOSE_SEP)
             ELSE close + Len(SPAN_CLOSE)

RECURSIVE ReplaceAllFrom(_, _)
ReplaceAllFrom(s, i) ==
    IF i > Len(s) THEN <<>>
    ELSE LET end == SpanMatchEnd(s, i)
         IN  IF end = 0 THEN <<s[i]>> \o ReplaceAllFrom(s, i + 1)
             ELSE ReplaceAllFrom(s, end)

\* re_span.replace_all(text, "")
re_span_replace_all(text) == ReplaceAllFrom(text, 1)

HTTPS == Str(<<"h", "t", "t", "p", "s", ":", "/", "/">>)

\* The mapping closures of the adapters: None skips the container.
\* Mutant of BingBuilder: the description is cleaned first and trimmed
\* afterwards.
BingBuilder_CleanThenTrim(title, url, desc) ==
    IF url.href = None THEN None
    ELSE Some(SearchResult(Trim(title.inner_html), BingUrlDecoded(url.href[1]),
                           Trim(re_span_replace_all(desc.inner_html)), "bing"))

BingBuilder(title, url, desc) ==
    IF url.href = None THEN None
    ELSE Some(SearchResult(Trim(title.inner_html), BingUrlDecoded(url.href[1]),
                           re_span_replace_all(Trim(desc.inner_html)), "bing"))

BraveBuilder(title, url, desc) ==
    IF url.href = None THEN None
    ELSE Some(SearchResult(Trim(TextOf(title.inner_html, FALSE)), Trim(url.href[1]),
                           Trim(desc.inner_html), "brave"))

DuckDuckGoBuilder(title, url, desc) ==
    Some(SearchResult(Trim(title.inner_html), HTTPS \o Trim(url.inner_html),
                      Trim(desc.inner_html), "duckduckgo"))

\* Mutant of LibreXBuilder: title and description change places.
LibreXBuilder_Swapped(title, url, desc) ==
    IF url.href = None THEN None
    ELSE Some(SearchResult(Trim(desc.inner_html), url.href[1],
                           Trim(title.inner_html), "librex"))

LibreXBuilder(title, url, desc) ==
    IF url.href = None THEN None
    ELSE Some(SearchResult(Trim(title.inner_html), url.href[1],
                           Trim(desc.inner_html), "librex"))

\* Mutant of StartpageBuilder: a missing href becomes an empty url.
StartpageBuilder_DefaultHref(title, url, desc) ==
    Some(SearchResult(Trim(title.inner_html),
                      IF url.href = None THEN <<>> ELSE url.href[1],
                      Trim(desc.inner_html), "startpage"))

StartpageBuilder(title, url, desc) ==
    IF url.href = None THEN None
    ELSE Some(SearchResult(Trim(title.inner_html), url.href[1],
                           Trim(desc.inner_html), "startpage"))

Builder(engine, title, url, desc) ==
    CASE engine = "bing" -> BingBuilder(title, url, desc)
      [] engine = "brave" -> BraveBuilder(title, url, desc)
      [] engine = "duckduckgo" -> DuckDuckGoBuilder(title, url, desc)
      [] engine = "librex" -> LibreXBuilder(title, url, desc)
      [] engine = "startpage" -> StartpageBuilder(title, url, desc)

\* SearchResultParser::parse_for_results: every container whose three
\* sub-selectors match is handed to the builder, the others are skipped;
\* each result is paired with its url.  Always Ok.
parse_for_results(document, engine) ==
    LET items == Select(document, "item")
        built == [i \in 1..Len(items) |->
                    LET c == items[i]
                    IN  IF c.title = None \/ c.link = None \/ c.desc = None
                        THEN None
                        ELSE Builder(engine, c.title[1], c.link[1], c.desc[1])]
        results == Flatten(built)
    IN  [i \in 1..Len(results) |-> <<results[i].url, results[i]>>]

\* bing.rs: the class name looked for in the first no-results element
B_ALGO == Str(<<"b", "_", "a", "l", "g", "o">>)

\* brave.rs: the phrase looked for in the first no-results element
NO_MATCHES ==
    Str(<<"N", "o", "t", " ", "m", "a", "n", "y", " ", "g", "r", "e", "a",
        "t", " ", "m", "a", "t", "c", "h", "e", "s", " ", "c", "a", "m",
        "e", " ", "b", "a", "c", "k", " ", "f", "o", "r", " ", "y", "o",
        "u", "r", " ", "s", "e", "a", "r", "c", "h">>)

\* The no-results check of each adapter (the condition under which
\* results returns Err(EmptyResultSet)).
\* Mutant of BingNoResults: a page without containers counts as empty too.
BingNoResults_OrNoItems(document) ==
    LET matched == parse_for_no_results(document)
    IN  \/ Select(document, "item") = <<>>
        \/ /\ matched # <<>>
           /\ matched[1].class # None
           /\ Contains(matched[1].class[1], B_ALGO)

BingNoResults(document) ==
    LET matched == parse_for_no_results(document)
    IN  /\ matched # <<>>
        /\ matched[1].class # None
        /\ Contains(matched[1].class[1], B_ALGO)

BraveNoResults(document) ==
    LET matched == parse_for_no_results(document)
    IN  /\ matched # <<>>
        /\ Contains(matched[1].inner_html, NO_MATCHES)

\* Mutant of DuckDuckGoNoResults: the no-results element counts only when
\* no container matched.
DuckDuckGoNoResults_UnlessItems(document) ==
    /\ parse_for_no_results(document) # <<>>
    /\ Select(document, "item") = <<>>

DuckDuckGoNoResults(document) == parse_for_no_results(document) # <<>>

LibreXNoResults(document) == parse_for_no_results(document) # <<>>

StartpageNoResults(document) == parse_for_no_results(document) # <<>>

NoResults(engine, document) ==
    CASE engine = "bing" -> BingNoResults(document)
      [] engine = "brave" -> BraveNoResults(document)
      [] engine = "duckduckgo" -> DuckDuckGoNoResults(document)
      [] engine = "librex" -> LibreXNoResults(document)
      [] engine = "startpage" -> StartpageNoResults(document)

(***************************************************************************)
(* Inputs.                                                                 *)
(***************************************************************************)
MaxPage == 2

MaxElems == 2

\* small pages, the last page whose 10 * page + 1 fits a u32 (429496729),
\* the first whose does not (429496730), and u32::MAX
Pages ==
    {Small(n) : n \in 0..MaxPage} \cup {Num(6553, 39321), Num(6553, 39322), U32Max}

\* u8 safe-search levels: each arm of the matches on safe_search, and
\* u8::MAX
SafeSearchLevels == {0, 1, 2, 255}

Queries == {"rust", "web+search"}

UserAgents == {"Mozilla/5.0", "Mozilla\n5.0"}

AcceptLanguages == {"en-US", "en\nUS"}

Args ==
    [engine : Engines, query : Queries, page : Pages, user_agent : UserAgents,
     safe_search : SafeSearchLevels, accept_language : AcceptLanguages]

\* Elements a no-results selector may match: a plain one, and one whose
\* class list holds b_algo and whose inner HTML holds the Brave phrase.
NoResultsElements ==
    { NoResultsElement(None, Str(<<"N", "o", " ", "r", "e", "s", "u", "l", "t", "s">>)),
      NoResultsElement(Some(Str(<<"b", "_", "a", "n", "s", " ", "b", "_", "a", "l", "g", "o">>)),
                       Str(<<"<", "b", ">">>) \o NO_MATCHES \o Str(<<".", "<", "/", "b", ">">>)) }

TitleA == Element(None, Str(<<" ", "<", "b", ">", "A", "<", "/", "b", ">", "1", " ">>))

TitleB == Element(None, Str(<<"B">>))

LinkA == Element(Some(Str(<<" ", "h", "t", "t", "p", "s", ":", "/", "/", "a", ".", "i", "o", "/", "x", " ">>)), Str(<<" ", "a", ".", "i", "o", "/", "x">>))

\* the click-tracking link of https://example.com
LinkB ==
    Element(Some(CLICK_PREFIX \o Str(<<"!", "&", "&", "p", "=", "0">>) \o MARKER
                 \o Str(<<"a", "H", "R", "0", "c", "H", "M", "6", "L", "y", "9", "l", "e", "G", "F", "t", "c", "G", "x", "l", "L", "m", "N", "v", "b", "Q", "&", "n", "t", "b", "=", "1">>)),
            Str(<<"e", "x", "a", "m", "p", "l", "e", ".", "c", "o", "m">>))

LinkNoHref == Element(None, Str(<<"c", ".", "i", "o">>))

DescA == Element(None, Str(<<" ", "a", "b", "o", "u", "t", " ", "a", " ">>))

DescB ==
    Element(None, Str(<<"<", "s", "p", "a", "n", ">", "1", "d", "<", "/", "s", "p", "a", "n", ">", "&", "n", "b", "s", "p", ";">>) \o <<195, 130, 194, 183>>
                  \o Str(<<" ", "a", "b", "o", "u", "t", " ", "b">>))

\* a description with white space around it and two span fragments, the
\* second one not leading
DescC ==
    Element(None, Str(<<" ", "<", "s", "p", "a", "n", ">", "c", "<", "/", "s", "p", "a", "n", ">", " ", "m", " ", "<", "s", "p", "a", "n", ">", "d", "<", "/", "s", "p", "a", "n", ">", " ">>))

\* Containers a result-item selector may match: three well-formed ones,
\* one whose link element has no href, and one for each sub-selector that
\* matches nothing.
Containers ==
    { Container(Some(TitleA), Some(LinkA), Some(DescA)),
      Container(Some(TitleB), Some(LinkB), Some(DescB)),
      Container(Some(TitleB), Some(LinkA), Some(DescC)),
      Container(Some(TitleA), Some(LinkNoHref), Some(DescB)),
      Container(None, Some(LinkA), Some(DescA)),
      Container(Some(TitleB), None, Some(DescA)),
      Container(Some(TitleB), Some(LinkA), None) }

SeqsUpTo(S, n) == UNION {[1..k -> S] : k \in 0..n}

HtmlPages ==
    SeqsUpTo(NoResultsElements \cup Containers \cup {OtherElement}, MaxElems)

(***************************************************************************)
(* One results call of an adapter, step by step.                           *)
(***************************************************************************)
VARIABLES
    overflow_checks,  \* the build profile: TRUE when overflow panics
    pc,               \* the position of the call
    args,             \* the arguments of the call
    url,              \* the URL built (Some), or None
    header_map,       \* the header map built (Some), or None
    html,             \* the page the transport returned (Some), or None
    document,         \* the parsed document (Some), or None
    ret,              \* what the call returned
    steps,            \* the steps the call has run, in order
    sample,           \* decode_url check: the link under test
    decoded,          \* decode_url check: the url produced for it
    first,            \* request pair: the request of an earlier call
    second            \* request pair: the request of a later call

vars ==
    <<overflow_checks, pc, args, url, header_map, html, document, ret, steps,
      sample, decoded, first, second>>

callVars == <<pc, args, url, header_map, html, document, ret, steps>>

NoArgs ==
    [engine |-> "", query |-> "", page |-> Small(0), user_agent |-> "",
     safe_search |-> 0, accept_language |-> ""]

Pending == [status |-> "pending", error |-> "", value |-> <<>>]

Ok(v) == [status |-> "Ok", error |-> "", value |-> v]

Err(e) == [status |-> "Err", error |-> e, value |-> <<>>]

Panic == [status |-> "panic", error |-> "", value |-> <<>>]

Idle ==
    /\ pc = "idle"
    /\ args = NoArgs
    /\ url = None
    /\ header_map = None
    /\ html = None
    /\ document = None
    /\ ret = Pending
    /\ steps = <<>>

\* results is called
Call ==
    /\ pc = "idle"
    /\ \E a \in Args : args' = a
    /\ pc' = "build_url"
    /\ UNCHANGED <<overflow_checks, url, header_map, html, document, ret, steps,
                   sample, decoded, first, second>>

\* let url = ...: an overflowing u32 step panics under overflow checks
BuildUrlStep ==
    /\ pc = "build_url"
    /\ steps' = Append(steps, "url")
    /\ LET built == BuildUrl(args.engine, args.query, args.page, overflow_checks)
       IN  IF built = Panicked
           THEN /\ ret' = Panic
                /\ pc' = "done"
                /\ url' = url
           ELSE /\ url' = built
                /\ pc' = "build_headers"
                /\ ret' = ret
    /\ UNCHANGED <<overflow_checks, args, header_map, html, document,
                   sample, decoded, first, second>>

\* HeaderMap::try_from(...).change_context(EngineError::UnexpectedError)?
BuildHeadersStep ==
    /\ pc = "build_headers"
    /\ steps' = Append(steps, "headers")
    /\ LET headers == BuildHeaders(args.engine, args.user_agent,
                                   args.accept_language, args.safe_search)
       IN  IF HeaderMapTryFrom(headers)
           THEN /\ header_map' = Some(headers)
                /\ pc' = "fetch"
                /\ ret' = ret
           ELSE /\ ret' = Err("UnexpectedError")
                /\ pc' = "done"
                /\ header_map' = header_map
    /\ UNCHANGED <<overflow_checks, args, url, html, document,
                   sample, decoded, first, second>>

\* fetch_html_from_upstream(self, &url, header_map, client).await?: the
\* transport returns a page
FetchOk ==
    /\ pc = "fetch"
    /\ steps' = Append(steps, "fetch")
    /\ \E page \in HtmlPages : html' = Some(page)
    /\ pc' = "parse"
    /\ UNCHANGED <<overflow_checks, args, url, header_map, document, ret,
                   sample, decoded, first, second>>

\* fetch_html_from_upstream(...).await?: the transport fails
FetchFail ==
    /\ pc = "fetch"
    /\ steps' = Append(steps, "fetch")
    /\ ret' = Err("RequestError")
    /\ pc' = "done"
    /\ UNCHANGED <<overflow_checks, args, url, header_map, html, document,
                   sample, decoded, first, second>>

\* Html::parse_document
Parse ==
    /\ pc = "parse"
    /\ steps' = Append(steps, "parse")
    /\ document' = Some(ParseDocument(html[1]))
    /\ pc' = "detect"
    /\ UNCHANGED <<overflow_checks, args, url, header_map, html, ret,
                   sample, decoded, first, second>>

\* the no-results check: return Err(Report::new(EngineError::EmptyResultSet))
DetectNoResults ==
    /\ pc = "detect"
    /\ steps' = Append(steps, "detect")
    /\ IF NoResults(args.engine, document[1])
       THEN /\ ret' = Err("EmptyResultSet")
            /\ pc' = "done"
       ELSE /\ pc' = "extract"
            /\ ret' = ret
    /\ UNCHANGED <<overflow_checks, args, url, header_map, html, document,
                   sample, decoded, first, second>>

\* self.parser.parse_for_results(&document, closure): the value of results
ExtractResults ==
    /\ pc = "extract"
    /\ steps' = Append(steps, "extract")
    /\ ret' = Ok(parse_for_results(document[1], args.engine))
    /\ pc' = "done"
    /\ UNCHANGED <<overflow_checks, args, url, header_map, html, document,
                   sample, decoded, first, second>>

\* the call is over; the adapter keeps nothing of it
Return ==
    /\ pc = "done"
    /\ pc' = "idle"
    /\ args' = NoArgs
    /\ url' = None
    /\ header_map' = None
    /\ html' = None
    /\ document' = None
    /\ ret' = Pending
    /\ steps' = <<>>
    /\ UNCHANGED <<overflow_checks, sample, decoded, first, second>>

Init ==
    /\ overflow_checks \in BOOLEAN
    /\ Idle
    /\ sample = <<>>
    /\ decoded = None
    /\ first = None
    /\ second = None

Next ==
    \/ Call
    \/ BuildUrlStep
    \/ BuildHeadersStep
    \/ FetchOk
    \/ FetchFail
    \/ Parse
    \/ DetectNoResults
    \/ ExtractResults
    \/ Return

Spec == Init /\ [][Next]_vars

(***************************************************************************)
(* The url of a Bing result, over a family of links.  A link is a head,    *)
(* a middle part, maybe &u=a1 and a payload, and a tail.                   *)
(***************************************************************************)
MaxChars == 2

\* &u=a1, as the links under test spell it
U_A1 == Str(<<"&", "u", "=", "a", "1">>)

\* UTF-8 characters: a, &, and the two-byte U+03FF
Utf8Chars == { <<97>>, <<38>>, <<207, 191>> }

ExampleUrl == Str(<<"h", "t", "t", "p", "s", ":", "/", "/", "e", "x", "a", "m", "p",
        "l", "e", ".", "c", "o", "m">>)

\* the UTF-8 strings of at most MaxChars characters, and the example
Utf8Strings ==
    {Flatten(cs) : cs \in SeqsUpTo(Utf8Chars, MaxChars)} \cup {ExampleUrl}

\* byte strings that are no UTF-8: a lone lead byte, a lone continuation
\* byte, a truncated character, an overlong lead byte
InvalidUtf8 == { <<207>>, <<191, 97>>, <<97, 207>>, <<97, 97, 192, 128>> }

\* the symbol of a 6-bit value in the standard base64 alphabet
B64Symbol(v) ==
    IF v < 26 THEN 65 + v
    ELSE IF v < 52 THEN 71 + v
    ELSE IF v < 62 THEN v - 4
    ELSE IF v = 62 THEN 43
    ELSE 47

RECURSIVE Base64Encode(_)
\* the standard base64 encoding without padding (RFC 4648 section 4)
Base64Encode(b) ==
    IF Len(b) >= 3
    THEN LET n == b[1] * 65536 + b[2] * 256 + b[3]
         IN  <<B64Symbol(n \div 262144), B64Symbol((n \div 4096) % 64),
               B64Symbol((n \div 64) % 64), B64Symbol(n % 64)>>
                 \o Base64Encode(SubSeq(b, 4, Len(b)))
    ELSE IF Len(b) = 2
    THEN LET n == b[1] * 256 + b[2]
         IN  <<B64Symbol(n \div 1024), B64Symbol((n \div 16) % 64),
               B64Symbol((n % 16) * 4)>>
    ELSE IF Len(b) = 1
    THEN <<B64Symbol(b[1] \div 4), B64Symbol((b[1] % 4) * 16)>>
    ELSE <<>>

\* payloads that are no unpadded standard base64: padded, one symbol too
\* many, non-zero trailing bits, URL-safe symbols, a blank
InvalidBase64 ==
    { Str(<<"Y", "Q", "=", "=">>), Str(<<"Y", "W", "F", "h", "Y">>), Str(<<"Y", "R">>),
      Str(<<"a", "-", "_", "b">>), Str(<<"Y", "W", " ", "F", "h">>) }

Heads == { CLICK_PREFIX, Str(<<"h", "t", "t", "p", "s", ":", "/", "/", "x", ".", "i", "o", "/", "r", "?">>) }

\* middle parts: none, parameters, &u=a1 with a payload of its own (QQ),
\* and a bare &u=a1
Middles == { <<>>, Str(<<"!", "&", "&", "p", "=", "0">>), U_A1 \o Str(<<"Q", "Q">>), U_A1 }

Tails == { <<>>, Str(<<"&", "n", "t", "b", "=", "1">>), Str(<<"&">>) }

\* kind says what the payload is: "utf8" the encoding of the UTF-8 string
\* x, "bytes" the encoding of the non-UTF-8 bytes x, "bad64" no base64,
\* "none" no &u=a1 part at all
Samples ==
    LET Shape(kind, x, payload) ==
            {[head |-> h, middle |-> m, kind |-> kind, x |-> x,
              payload |-> payload, tail |-> t] :
                h \in Heads, m \in Middles, t \in Tails}
    IN  UNION ( {Shape("utf8", x, Base64Encode(x)) : x \in Utf8Strings}
                \cup {Shape("bytes", x, Base64Encode(x)) : x \in InvalidUtf8}
                \cup {Shape("bad64", <<>>, p) : p \in InvalidBase64}
                \cup {Shape("none", <<>>, <<>>)} )

LinkOf(s) ==
    s.head \o s.middle
        \o (IF s.kind = "none" THEN <<>> ELSE U_A1 \o s.payload) \o s.tail

\* the closure of bing.rs maps the href of a link element to the url of
\* the result
MapLink ==
    /\ sample # <<>>
    /\ decoded = None
    /\ decoded' = Some(BingUrlDecoded(LinkOf(sample)))
    /\ UNCHANGED <<overflow_checks, callVars, sample, first, second>>

\* the next link element
NextLink ==
    /\ decoded # None
    /\ \E s \in Samples : sample' = s
    /\ decoded' = None
    /\ UNCHANGED <<overflow_checks, callVars, first, second>>

DecodeInit ==
    /\ overflow_checks = FALSE
    /\ Idle
    /\ sample \in Samples
    /\ decoded = None
    /\ first = None
    /\ second = None

DecodeNext == MapLink \/ NextLink

SpecDecode == DecodeInit /\ [][DecodeNext]_vars

(***************************************************************************)
(* Two results calls of one adapter: the request (URL and header set) of   *)
(* an earlier call and of a later one.                                     *)
(***************************************************************************)
\* what a call hands to the transport, when it gets that far: the URL
\* (None when building it panicked) and the header set
Request(a, checks) ==
    [args |-> a,
     url |-> BuildUrl(a.engine, a.query, a.page, checks),
     headers |-> BuildHeaders(a.engine, a.user_agent, a.accept_language,
                              a.safe_search)]

FirstCall ==
    /\ first = None
    /\ \E a \in Args : first' = Some(Request(a, overflow_checks))
    /\ UNCHANGED <<overflow_checks, callVars, sample, decoded, second>>

SecondCall ==
    /\ first # None
    /\ second = None
    /\ \E a \in Args :
          /\ a.engine = first[1].args.engine
          /\ second' = Some(Request(a, overflow_checks))
    /\ UNCHANGED <<overflow_checks, callVars, sample, decoded, first>>

Forget ==
    /\ second # None
    /\ first' = None
    /\ second' = None
    /\ UNCHANGED <<overflow_checks, callVars, sample, decoded>>

PairInit == Init

PairNext == FirstCall \/ SecondCall \/ Forget

SpecPair == PairInit /\ [][PairNext]_vars

(***************************************************************************)
(* Claims about a results call (specification Spec).                       *)
(***************************************************************************)
Positions(doc, kind) == {i \in 1..Len(doc) : doc[i].kind = kind}

HasClassName(e) == e.class # None /\ Contains(e.class[1], B_ALGO)

HasPhrase(e) == Contains(e.inner_html, NO_MATCHES)

\* the no-results predicate, read as "some matched node satisfies it"
SomeNodeSignals(engine, doc) ==
    \E i \in Positions(doc, "no_results") :
        CASE engine = "bing" -> HasClassName(doc[i])
          [] engine = "brave" -> HasPhrase(doc[i])
          [] OTHER -> TRUE

\* the no-results predicate, read as "the first matched node satisfies it"
\* for Bing and Brave
FirstNodeSignals(engine, doc) ==
    \E i \in Positions(doc, "no_results") :
        /\ \A j \in Positions(doc, "no_results") : i <= j
        /\ CASE engine = "bing" -> HasClassName(doc[i])
             [] engine = "brave" -> HasPhrase(doc[i])
             [] OTHER -> TRUE

Ran(step) == \E i \in 1..Len(steps) : steps[i] = step

\* C1 as stated: whenever some node matched by the no-results selector
\* satisfies the engine's condition, results ends with EmptyResultSet and
\* extraction never runs.
C1_AnyNodeShortCircuits ==
    (document # None /\ SomeNodeSignals(args.engine, document[1]))
        => /\ pc # "extract"
           /\ ~Ran("extract")
           /\ (pc = "done" => ret = Err("EmptyResultSet"))

\* C1 (amended): whenever the engine's no-results predicate holds on the
\* document (Bing: the first matched no-results node has a class list
\* containing b_algo; Brave: the inner HTML of the first matched node
\* contains the phrase; DuckDuckGo, LibreX, Startpage: some node matches),
\* results ends with EmptyResultSet and extraction never runs, also when
\* the document holds result-item containers.
C1_NoResultsShortCircuits ==
    (document # None /\ FirstNodeSignals(args.engine, document[1]))
        => /\ pc # "extract"
           /\ ~Ran("extract")
           /\ (pc = "done" => ret = Err("EmptyResultSet"))

C1_Witness ==
    /\ pc = "done"
    /\ args.engine = "brave"
    /\ document # None
    /\ FirstNodeSignals("brave", document[1])
    /\ Positions(document[1], "item") # {}
    /\ ret = Err("EmptyResultSet")

\* whether a container yields a result with the adapter's closure
Contributes(engine, c) ==
    /\ c.title # None
    /\ c.link # None
    /\ c.desc # None
    /\ (engine # "duckduckgo" => c.link[1].href # None)

\* the containers of the document that yield a result, in document order
RECURSIVE Contributing(_, _)
Contributing(engine, doc) ==
    IF doc = <<>> THEN <<>>
    ELSE IF doc[1].kind = "item" /\ Contributes(engine, doc[1])
         THEN <<doc[1]>> \o Contributing(engine, Tail(doc))
    ELSE Contributing(engine, Tail(doc))

\* the title of the result a container yields
TitleFrom(engine, c) ==
    IF engine = "brave" THEN Trim(TextOf(c.title[1].inner_html, FALSE))
    ELSE Trim(c.title[1].inner_html)

\* the list holds one result per contributing container, in document order
InContainerOrder(engine, doc, list) ==
    LET from == Contributing(engine, doc)
    IN  /\ Len(list) = Len(from)
        /\ \A i \in 1..Len(list) :
              /\ list[i][2].title = TitleFrom(engine, from[i])
              /\ list[i][2].engine = {engine}
              /\ list[i][1] = list[i][2].url

\* C2 as stated: after a page was fetched, results either succeeds with a
\* non-empty list in container order or fails with EmptyResultSet.
C2_NonEmptyOrEmptyResultSet ==
    (pc = "done" /\ html # None)
        => \/ /\ ret.status = "Ok"
              /\ ret.value # <<>>
              /\ InContainerOrder(args.engine, html[1], ret.value)
           \/ ret = Err("EmptyResultSet")

\* C2 (amended): after a page was fetched, results either succeeds with a
\* list, possibly empty, of the results in the order their containers
\* appear in the page, or fails with EmptyResultSet.
C2_ListOrEmptyResultSet ==
    (pc = "done" /\ html # None)
        => \/ /\ ret.status = "Ok"
              /\ InContainerOrder(args.engine, html[1], ret.value)
           \/ ret = Err("EmptyResultSet")

C2_Witness ==
    /\ pc = "done"
    /\ html # None
    /\ ret.status = "Ok"
    /\ Len(ret.value) = 2
    /\ ret.value[1][2].title # ret.value[2][2].title

\* C3: when no node matches the no-results selector and none matches the
\* result-item selector, results returns Ok with an empty list.
C3_NothingMatchedIsOkEmpty ==
    ( /\ pc = "done"
      /\ document # None
      /\ Positions(document[1], "no_results") = {}
      /\ Positions(document[1], "item") = {} )
        => ret = Ok(<<>>)

C3_Witness ==
    /\ pc = "done"
    /\ document # None
    /\ Len(document[1]) > 0
    /\ Positions(document[1], "no_results") = {}
    /\ Positions(document[1], "item") = {}
    /\ ret = Ok(<<>>)

StepOrder == <<"url", "headers", "fetch", "parse", "detect", "extract">>

InvalidHeaderInput ==
    \/ args.user_agent \in InvalidHeaderValues
    \/ args.accept_language \in InvalidHeaderValues

\* C4: the steps of a call run in the order url, headers, fetch, parse,
\* detect, extract, each at most once; the transport is invoked only after
\* the header map was built; a call whose header map cannot be built ends
\* with UnexpectedError without a fetch; a call that ends with the fetch
\* ends with RequestError, and then neither detection nor extraction ran.
C4_SequentialPipeline ==
    /\ Len(steps) <= Len(StepOrder)
    /\ steps = SubSeq(StepOrder, 1, Len(steps))
    /\ Ran("fetch") => (header_map # None /\ ~InvalidHeaderInput)
    /\ (Ran("headers") /\ InvalidHeaderInput)
          => (pc = "done" /\ ret = Err("UnexpectedError") /\ ~Ran("fetch"))
    /\ (pc = "done" /\ Len(steps) = 3) => ret = Err("RequestError")
    /\ ret = Err("RequestError")
          => (pc = "done" /\ Len(steps) = 3 /\ ~Ran("detect") /\ ~Ran("extract"))

C4_Witness ==
    /\ pc = "done"
    /\ ret = Err("RequestError")
    /\ steps = <<"url", "headers", "fetch">>

\* C7: the list returned by extraction holds at most one result per
\* matched container, in document order: exactly the containers in which
\* title, link and description all match and for which the closure
\* returns a value (a link with href; any link for DuckDuckGo) contribute,
\* and a skipped container does not end the extraction of the others.
C7_OneResultPerGoodContainer ==
    (pc = "done" /\ Ran("extract"))
        => /\ ret.status = "Ok"
           /\ Len(ret.value) <= Cardinality(Positions(document[1], "item"))
           /\ InContainerOrder(args.engine, document[1], ret.value)

\* a skipped container is followed by one that contributes
C7_Witness ==
    /\ pc = "done"
    /\ Ran("extract")
    /\ args.engine = "startpage"
    /\ Len(document[1]) = 2
    /\ document[1][1].kind = "item"
    /\ document[1][1].link # None
    /\ document[1][1].link[1].href = None
    /\ document[1][2].kind = "item"
    /\ Len(ret.value) = 1

(***************************************************************************)
(* Claims about request building (specifications Spec and SpecPair).       *)
(***************************************************************************)
\* the decimal text of a page number
PageText(p) ==
    CASE p = Num(6553, 39321) -> "429496729"
      [] p = Num(6553, 39322) -> "429496730"
      [] p = U32Max -> "4294967295"
      [] OTHER -> ToString(p.lo)

\* C8: the Cookie header Brave sends is safe_search=off for level 0,
\* safe_search=moderate for level 1 and safe_search=strict for any higher
\* level, and its URL is /search?q=<query>&offset=<page> with the raw page
\* number, whatever the level.
C8_BraveSafeSearchCookie ==
    (args.engine = "brave" /\ header_map # None)
        => /\ header_map[1]["Cookie"] =
                 (IF args.safe_search = 0 THEN "safe_search=off"
                  ELSE IF args.safe_search = 1 THEN "safe_search=moderate"
                  ELSE "safe_search=strict")
           /\ url = Some("https://search.brave.com/search?q=" \o args.query
                         \o "&offset=" \o PageText(args.page))

C8_Witness ==
    /\ pc = "fetch"
    /\ args.engine = "brave"
    /\ args.safe_search = 255
    /\ args.page = U32Max
    /\ header_map # None
    /\ header_map[1]["Cookie"] = "safe_search=strict"

\* the decimal text of 10 * p + 1, computed exactly
FirstText(p) ==
    CASE p = Num(6553, 39321) -> "4294967291"
      [] p = Num(6553, 39322) -> "4294967301"
      [] p = U32Max -> "42949672951"
      [] OTHER -> ToString(10 * p.lo + 1)

\* the decimal text of p - 1, for p > 0
PredText(p) ==
    CASE p = Num(6553, 39321) -> "429496728"
      [] p = Num(6553, 39322) -> "429496729"
      [] p = U32Max -> "4294967294"
      [] OTHER -> ToString(p.lo - 1)

\* C10: for every u32 page, building the Bing URL does not fail; page 0
\* gives /search?q=<query>&pq=<query>, page 1 adds first=11 and FORM=PERE,
\* and a page p >= 2 adds first=10*p+1, computed exactly, and FORM=PERE
\* followed by p-1.
C10_BingPagination ==
    (args.engine = "bing" /\ Ran("url"))
        => /\ ret # Panic
           /\ LET base == "https://www.bing.com/search?q=" \o args.query
                              \o "&pq=" \o args.query
              IN  url = Some(IF args.page = Small(0) THEN base
                             ELSE IF args.page = Small(1)
                                  THEN base \o "&first=11&FORM=PERE"
                             ELSE base \o "&first=" \o FirstText(args.page)
                                       \o "&FORM=PERE" \o PredText(args.page))

SameButSafeSearch(a, b) ==
    /\ a.engine = b.engine
    /\ a.query = b.query
    /\ a.page = b.page
    /\ a.user_agent = b.user_agent
    /\ a.accept_language = b.accept_language

HasPattern(link) ==
    \E i \in 1..Len(link) :
        /\ StartsWithAt(link, i, U_A1)
        /\ i + Len(U_A1) <= Len(link)
        /\ link[i + Len(U_A1)] # 38

\* the middle part of the link holds such an occurrence of its own
EarlierPattern(s) == HasPattern(s.head \o s.middle \o <<38>>)

\* C5 as stated: for every UTF-8 string x, a click-tracking link that
\* holds &u=a1 followed by the base64 encoding of x yields the url x.
C5_EveryStringRoundTrips ==
    (decoded # None /\ sample.head = CLICK_PREFIX /\ sample.kind = "utf8")
        => decoded[1] = sample.x

\* C5 (amended): for every non-empty UTF-8 string x, a click-tracking link
\* whose first &u=a1 that is followed by a character other than & is
\* followed by the unpadded standard base64 encoding of x, ended by & or
\* by the end of the link, yields the url x; so the payload
\* aHR0cHM6Ly9leGFtcGxlLmNvbQ yields https://example.com.
C5_RoundTrip ==
    ( /\ decoded # None
      /\ sample.head = CLICK_PREFIX
      /\ sample.kind = "utf8"
      /\ sample.x # <<>>
      /\ ~EarlierPattern(sample) )
        => /\ decoded[1] = sample.x
           /\ sample.payload = Str(<<"a", "H", "R", "0", "c", "H", "M", "6", "L", "y", "9", "l", "e", "G", "F", "t", "c", "G", "x", "l", "L", "m", "N", "v", "b", "Q">>)
                 => decoded[1] = ExampleUrl

C5_Witness ==
    /\ decoded = Some(ExampleUrl)
    /\ sample.head = CLICK_PREFIX
    /\ sample.middle # <<>>
    /\ sample.tail # <<>>
    /\ sample.payload = Str(<<"a", "H", "R", "0", "c", "H", "M", "6", "L", "y", "9", "l", "e", "G", "F", "t", "c", "G", "x", "l", "L", "m", "N", "v", "b", "Q">>)

\* C6: the url of a link is always a string; it is the link unchanged
\* when the link holds no &u=a1 payload, when its payload is no valid
\* base64, when the decoded bytes are no UTF-8, and when the link does
\* not start with the click-tracking prefix.
C6_FallsBackToLink ==
    decoded # None
        => LET link == LinkOf(sample)
           IN  /\ decoded[1] \in Seq(0..255)
               /\ ~HasPattern(link) => decoded[1] = link
               /\ (sample.kind \in {"bad64", "bytes"} /\ ~EarlierPattern(sample))
                     => decoded[1] = link
               /\ sample.head # CLICK_PREFIX => decoded[1] = link

C6_Witness ==
    /\ decoded # None
    /\ sample.head = CLICK_PREFIX
    /\ sample.kind = "bytes"
    /\ ~EarlierPattern(sample)
    /\ decoded[1] = LinkOf(sample)

(***************************************************************************)
(* Claims about the description of a result (specification Spec).          *)
(***************************************************************************)
\* what Bing makes of the description DescB: the text after the separator
ABOUT_B == Str(<<" ", "a", "b", "o", "u", "t", " ", "b">>)

\* what Bing makes of the description DescC
MIDDLE_M == Str(<<" ", "m", " ">>)

\* the raw description content of the containers that yield a result
RawDescriptions(engine, doc) ==
    LET from == Contributing(engine, doc)
    IN  [i \in 1..Len(from) |-> from[i].desc[1].inner_html]

\* the text without the span fragment it starts with, if it starts with one
LeadingSpanRemoved(raw) ==
    LET end == SpanMatchEnd(raw, 1)
    IN  IF end = 0 THEN raw ELSE SubSeq(raw, end, Len(raw))

SuccText(p) ==
    CASE p = Num(6553, 39321) -> "429496730"
      [] p = Num(6553, 39322) -> "429496731"
      [] p = U32Max -> "4294967296"
      [] OTHER -> ToString(p.lo + 1)

\* the fourteen-field preference blob with the given family-filter flag
PreferencesCookie(flag) ==
    "preferences=date_timeEEEworldN1Ndisable_family_filterEEE" \o flag
        \o "N1Ndisable_open_in_new_windowEEE1N1Nenable_post_methodEEE0"
        \o "N1Nenable_proxy_safety_suggestEEE0N1Nenable_stay_controlEEE0"
        \o "N1Ninstant_answersEEE0N1Nlang_homepageEEEs%2Fdevice%2Fen"
        \o "N1NlanguageEEEenglishN1Nlanguage_uiEEEenglish"
        \o "N1Nnum_of_resultsEEE20N1Nsearch_results_regionEEEall"
        \o "N1NsuggestionsEEE0N1Nwt_unitEEEcelsius"

\* C12: for every page p, 0 included, building the Startpage URL does not
\* fail and gives the page-index URL with page=p+1, computed exactly, and
\* the same other parameters (no start= or num=); and the Cookie header is
\* the fourteen-field preference blob whose disable_family_filter field is
\* 1 for safe-search level 0 and 0 for any other level, whatever the page.
C12_StartpageCanonicalScheme ==
    (args.engine = "startpage" /\ Ran("url"))
        => /\ ret # Panic
           /\ url = Some("https://www.startpage.com/sp/search?lui=english"
                         \o "&language=english&query=" \o args.query
                         \o "&cat=web&t=device&segment=startpage.udog&page="
                         \o SuccText(args.page))
           /\ header_map # None
                 => header_map[1]["Cookie"] =
                       PreferencesCookie(IF args.safe_search = 0 THEN "1" ELSE "0")

=============================================================================
